---- MODULE Spec2Model ----
(***************************************************************************)
(* AggregationRequest (mongo/db/pipeline/aggregation_request.{h,cpp}):     *)
(* parsing of the aggregate command object (parseFromBSON), the setters    *)
(* of the request and its serialization (serializeToCommandObj).           *)
(*                                                                         *)
(* A BSON element is a record [name, type, b, n, s, doc]: its field name,  *)
(* its BSON type and, by type, its boolean, number, string or embedded     *)
(* object/array value (the components a type does not use hold a fixed     *)
(* default).  A BSON object is the sequence of its elements in document    *)
(* order; field names may repeat, as they may in BSON.                     *)
(***************************************************************************)
EXTENDS Integers, Sequences, FiniteSets, TLC

VARIABLES
    readOnly,          \* storageGlobalParams.readOnly
    pc,                \* "call", "returned" or "built" (see the state machine)
    cmdObj,            \* the cmdObj argument of parseFromBSON
    explainVerbosity,  \* its explainVerbosity argument, "none" for boost::none
    status,            \* the status of the StatusWith it returned
    request,           \* <<r>>: the request returned or owned; <<>>: none
    orig,              \* <<r>>: the request whose serialization is parsed again
    serialized,        \* <<d>>: the Document serializeToCommandObj returned
    call,              \* the member function called last, with its batchSize
    thrown             \* the code of the uassert the last call raised, or 0

vars == <<readOnly, pc, cmdObj, explainVerbosity, status, request, orig,
          serialized, call, thrown>>

(* ------------------------------ bounds -------------------------------- *)

\* Largest number of top-level fields of a generated command object.
MaxFields == 3

(* ------------------------- BSON elements ------------------------------ *)

EObj(name, d)  == [name |-> name, type |-> "Object", b |-> FALSE, n |-> 0, s |-> "", doc |-> d]
EArr(name, d)  == [name |-> name, type |-> "Array", b |-> FALSE, n |-> 0, s |-> "", doc |-> d]
EStr(name, v)  == [name |-> name, type |-> "String", b |-> FALSE, n |-> 0, s |-> v, doc |-> <<>>]
EBool(name, v) == [name |-> name, type |-> "Bool", b |-> v, n |-> 0, s |-> "", doc |-> <<>>]
ENum(name, v)  == [name |-> name, type |-> "NumberLong", b |-> FALSE, n |-> v, s |-> "", doc |-> <<>>]

\* The names BSON gives the elements of an array: "0", "1", ...
ArrayIndexName(i) ==
    CASE i = 1 -> "0" [] i = 2 -> "1" [] i = 3 -> "2" [] OTHER -> "3"

\* cmdObj[name]: the indexes of the fields called name, in document order.
FieldIndexes(obj, name) == {k \in 1..Len(obj) : obj[k].name = name}

HasField(obj, name) == FieldIndexes(obj, name) # {}

\* BSONObj::operator[]: the FIRST field of that name (precondition: one exists).
GetField(obj, name) ==
    obj[CHOOSE k \in FieldIndexes(obj, name) : \A j \in FieldIndexes(obj, name) : k <= j]

(* --------------------------- field names ------------------------------ *)

kCommandName == "aggregate"
kCursorName == "cursor"
kBatchSizeName == "batchSize"
kFromRouterName == "fromRouter"
kPipelineName == "pipeline"
kCollationName == "collation"
kExplainName == "explain"
kAllowDiskUseName == "allowDiskUse"
kHintName == "hint"
kDefaultBatchSize == 101

kBypassDocumentValidationName == "bypassDocumentValidation"
kMaxTimeMSName == "maxTimeMS"
kWriteConcernField == "writeConcern"
kReadConcernFieldName == "readConcern"

optionsParsedElseWhere ==
    {kMaxTimeMSName, kWriteConcernField, kPipelineName, kCommandName, kReadConcernFieldName}

\* The field names of the model whose first character is '$'.
DollarNames == {"$queryOptions", "$hint", "$match", "$sort"}

DollarPrefixed(name) == name \in DollarNames

(* ----------------------------- statuses ------------------------------- *)

Err(code, reason, field, type) ==
    [code |-> code, reason |-> reason, field |-> field, type |-> type]

StatusOK == Err("OK", "", "", "")

(* --------------------------- the request ------------------------------ *)

\* boost::optional<ExplainOptions::Verbosity>: "none" is boost::none.
Verbosities == {"queryPlanner", "executionStats"}

\* AggregationRequest(nss, pipeline): every option at its default.
AggregationRequest(nss, pipeline) ==
    [nss |-> nss, pipeline |-> pipeline, batchSize |-> kDefaultBatchSize,
     collation |-> <<>>, hint |-> <<>>, explainMode |-> "none",
     allowDiskUse |-> FALSE, fromRouter |-> FALSE, bypassDocumentValidation |-> FALSE]

\* Mutant: the uassert of setBatchSize is missing.
setBatchSizeThrows_Never(batchSize) == FALSE

\* uassert(40203, ..., batchSize >= 0): TRUE when setBatchSize throws.
setBatchSizeThrows(batchSize) == ~(batchSize >= 0)

setBatchSize(r, batchSize) == [r EXCEPT !.batchSize = batchSize]

setCollation(r, collation) == [r EXCEPT !.collation = collation]

setHint(r, hint) == [r EXCEPT !.hint = hint]

setExplain(r, verbosity) == [r EXCEPT !.explainMode = verbosity]

setAllowDiskUse(r, v) == [r EXCEPT !.allowDiskUse = v]

setFromRouter(r, v) == [r EXCEPT !.fromRouter = v]

setBypassDocumentValidation(r, v) == [r EXCEPT !.bypassDocumentValidation = v]

(* ------------------------ external collaborators ---------------------- *)

\* BSONElement::isNumber
isNumber(elem) == elem.type \in {"NumberLong", "NumberInt", "NumberDouble"}

\* BSONElement::trueValue: the loose truthiness of an element of any type.
trueValue(elem) ==
    CASE elem.type = "Bool" -> elem.b
      [] isNumber(elem) -> elem.n # 0
      [] elem.type \in {"Null", "Undefined", "EOO"} -> FALSE
      [] OTHER -> TRUE

\* CursorRequest::parseCommandCursorOptions(cmdObj, defaultBatchSize, &batchSize):
\* reads the cursor field of the whole command object.
parseCommandCursorOptions(obj, defaultBatchSize) ==
    IF ~HasField(obj, kCursorName)
    THEN [status |-> StatusOK, batchSize |-> defaultBatchSize]
    ELSE LET cursorElem == GetField(obj, kCursorName) IN
         IF cursorElem.type # "Object"
         THEN [status |-> Err("TypeMismatch", "cursor field must be missing or an object",
                              kCursorName, cursorElem.type),
               batchSize |-> defaultBatchSize]
         ELSE LET cursor == cursorElem.doc IN
              IF \E k \in 1..Len(cursor) : cursor[k].name # kBatchSizeName
              THEN [status |-> Err("BadValue",
                                   "cursor object can't contain fields other than batchSize",
                                   kCursorName, "Object"),
                    batchSize |-> defaultBatchSize]
              ELSE IF ~HasField(cursor, kBatchSizeName)
              THEN [status |-> StatusOK, batchSize |-> defaultBatchSize]
              ELSE LET batchSizeElem == GetField(cursor, kBatchSizeName) IN
                   IF ~isNumber(batchSizeElem)
                   THEN [status |-> Err("TypeMismatch", "cursor.batchSize must be a number",
                                        kBatchSizeName, batchSizeElem.type),
                         batchSize |-> defaultBatchSize]
                   ELSE IF batchSizeElem.n < 0
                   THEN [status |-> Err("BadValue", "cursor.batchSize must not be negative",
                                        kBatchSizeName, batchSizeElem.type),
                         batchSize |-> defaultBatchSize]
                   ELSE [status |-> StatusOK, batchSize |-> batchSizeElem.n]

(* --------------------------- parseFromBSON ---------------------------- *)

\* "Parse required parameters": the status of the pipeline checks.
PipelineStatus(obj) ==
    IF ~HasField(obj, kPipelineName) \/ GetField(obj, kPipelineName).type # "Array"
    THEN Err("TypeMismatch", "'pipeline' option must be specified as an array",
             kPipelineName, "")
    ELSE IF \E k \in 1..Len(GetField(obj, kPipelineName).doc) :
                 GetField(obj, kPipelineName).doc[k].type # "Object"
    THEN Err("TypeMismatch", "Each element of the 'pipeline' array must be an object",
             kPipelineName, "")
    ELSE StatusOK

\* The std::vector<BSONObj> built from a pipeline array whose elements are objects.
PipelineOf(obj) ==
    [k \in 1..Len(GetField(obj, kPipelineName).doc) |-> GetField(obj, kPipelineName).doc[k].doc]

\* Mutant: hasCursorElem starts out true.
ScanState_CursorSeen(r) ==
    [request |-> r, hasCursorElem |-> TRUE, hasExplainElem |-> FALSE, status |-> StatusOK]

\* The locals of the scan: the request under construction, the two flags and
\* the status an early return carries.
ScanState(r) ==
    [request |-> r, hasCursorElem |-> FALSE, hasExplainElem |-> FALSE, status |-> StatusOK]

Fail(st, e) == [st EXCEPT !.status = e]

\* Mutant: a hint given by name is stored under "hint" instead of "$hint".
ParseHint_WrongKey(st, elem) ==
    IF elem.type = "Object"
    THEN [st EXCEPT !.request = setHint(st.request, elem.doc)]
    ELSE IF elem.type = "String"
    THEN [st EXCEPT !.request = setHint(st.request, <<EStr(kHintName, elem.s)>>)]
    ELSE Fail(st, Err("FailedToParse",
                      "must be specified as a string representing an index name, or an object representing an index's key pattern",
                      kHintName, elem.type))

\* The hint branch: an object as it is, a string wrapped as {$hint: <string>}.
ParseHint(st, elem) ==
    IF elem.type = "Object"
    THEN [st EXCEPT !.request = setHint(st.request, elem.doc)]
    ELSE IF elem.type = "String"
    THEN [st EXCEPT !.request = setHint(st.request, <<EStr("$hint", elem.s)>>)]
    ELSE Fail(st, Err("FailedToParse",
                      "must be specified as a string representing an index name, or an object representing an index's key pattern",
                      kHintName, elem.type))

\* The cursor branch.
ParseCursor(st, obj) ==
    LET parsed == parseCommandCursorOptions(obj, kDefaultBatchSize) IN
    IF parsed.status.code # "OK"
    THEN Fail(st, parsed.status)
    ELSE IF setBatchSizeThrows(parsed.batchSize)
    THEN Fail(st, Err("Location40203", "batchSize must be non-negative", kBatchSizeName, ""))
    ELSE [st EXCEPT !.hasCursorElem = TRUE,
                    !.request = setBatchSize(st.request, parsed.batchSize)]

\* Mutant: hasExplainElem is set only when the explain field is true.
ParseExplain_FlagWhenTrue(st, elem) ==
    IF elem.type # "Bool"
    THEN Fail(st, Err("TypeMismatch", "must be a boolean, not a", kExplainName, elem.type))
    ELSE IF elem.b
    THEN [st EXCEPT !.hasExplainElem = TRUE,
                    !.request = setExplain(st.request, "queryPlanner")]
    ELSE st

\* The explain branch.
ParseExplain(st, elem) ==
    IF elem.type # "Bool"
    THEN Fail(st, Err("TypeMismatch", "must be a boolean, not a", kExplainName, elem.type))
    ELSE [st EXCEPT !.hasExplainElem = TRUE,
                    !.request = IF elem.b THEN setExplain(st.request, "queryPlanner")
                                ELSE st.request]

\* Mutant: a field of an unknown name is skipped instead of refused.
ParseField_IgnoreUnknown(st, elem, obj, ro) ==
    IF DollarPrefixed(elem.name) THEN st
    ELSE IF elem.name \in optionsParsedElseWhere THEN st
    ELSE IF elem.name = kCursorName THEN ParseCursor(st, obj)
    ELSE IF elem.name = kCollationName THEN
        IF elem.type # "Object"
        THEN Fail(st, Err("TypeMismatch", "must be an object, not a", kCollationName, elem.type))
        ELSE [st EXCEPT !.request = setCollation(st.request, elem.doc)]
    ELSE IF elem.name = kHintName THEN ParseHint(st, elem)
    ELSE IF elem.name = kExplainName THEN ParseExplain(st, elem)
    ELSE IF elem.name = kFromRouterName THEN
        IF elem.type # "Bool"
        THEN Fail(st, Err("TypeMismatch", "must be a boolean, not a", kFromRouterName, elem.type))
        ELSE [st EXCEPT !.request = setFromRouter(st.request, elem.b)]
    ELSE IF elem.name = kAllowDiskUseName THEN
        IF ro
        THEN Fail(st, Err("IllegalOperation", "option is not permitted in read-only mode.",
                          kAllowDiskUseName, ""))
        ELSE IF elem.type # "Bool"
        THEN Fail(st, Err("TypeMismatch", "must be a boolean, not a", kAllowDiskUseName, elem.type))
        ELSE [st EXCEPT !.request = setAllowDiskUse(st.request, elem.b)]
    ELSE IF elem.name = kBypassDocumentValidationName THEN
        [st EXCEPT !.request = setBypassDocumentValidation(st.request, trueValue(elem))]
    ELSE st

\* One iteration of the loop over the fields of cmdObj.
ParseField(st, elem, obj, ro) ==
    IF DollarPrefixed(elem.name) THEN st
    ELSE IF elem.name \in optionsParsedElseWhere THEN st
    ELSE IF elem.name = kCursorName THEN ParseCursor(st, obj)
    ELSE IF elem.name = kCollationName THEN
        IF elem.type # "Object"
        THEN Fail(st, Err("TypeMismatch", "must be an object, not a", kCollationName, elem.type))
        ELSE [st EXCEPT !.request = setCollation(st.request, elem.doc)]
    ELSE IF elem.name = kHintName THEN ParseHint(st, elem)
    ELSE IF elem.name = kExplainName THEN ParseExplain(st, elem)
    ELSE IF elem.name = kFromRouterName THEN
        IF elem.type # "Bool"
        THEN Fail(st, Err("TypeMismatch", "must be a boolean, not a", kFromRouterName, elem.type))
        ELSE [st EXCEPT !.request = setFromRouter(st.request, elem.b)]
    ELSE IF elem.name = kAllowDiskUseName THEN
        IF ro
        THEN Fail(st, Err("IllegalOperation", "option is not permitted in read-only mode.",
                          kAllowDiskUseName, ""))
        ELSE IF elem.type # "Bool"
        THEN Fail(st, Err("TypeMismatch", "must be a boolean, not a", kAllowDiskUseName, elem.type))
        ELSE [st EXCEPT !.request = setAllowDiskUse(st.request, elem.b)]
    ELSE IF elem.name = kBypassDocumentValidationName THEN
        [st EXCEPT !.request = setBypassDocumentValidation(st.request, trueValue(elem))]
    ELSE Fail(st, Err("FailedToParse", "unrecognized field", elem.name, ""))

\* "Parse optional parameters": the loop from field i on, left at the first error.
RECURSIVE ScanFields(_, _, _, _)
ScanFields(st, obj, i, ro) ==
    IF i > Len(obj) \/ st.status.code # "OK"
    THEN st
    ELSE ScanFields(ParseField(st, obj[i], obj, ro), obj, i + 1, ro)

\* Mutant: the cursor check asks for an explain field instead of an explain
\* verbosity.
CrossChecks_ExplainElem(st, obj, ev) ==
    IF ev # "none" /\ st.hasExplainElem
    THEN Fail(st, Err("FailedToParse",
                      "option is illegal when a explain verbosity is also provided",
                      kExplainName, ""))
    ELSE LET r == IF ev # "none" THEN setExplain(st.request, ev) ELSE st.request IN
         IF ~st.hasCursorElem /\ ~st.hasExplainElem /\ ev = "none"
         THEN Fail(st, Err("FailedToParse",
                           "option is required, except for aggregation explain",
                           kCursorName, ""))
         ELSE IF r.explainMode # "none" /\ HasField(obj, kReadConcernFieldName)
         THEN Fail(st, Err("FailedToParse", "Aggregation explain does not support the option",
                           kReadConcernFieldName, ""))
         ELSE IF r.explainMode # "none" /\ HasField(obj, kWriteConcernField)
         THEN Fail(st, Err("FailedToParse", "Aggregation explain does not support the option",
                           kWriteConcernField, ""))
         ELSE [st EXCEPT !.request = r]

\* Mutant: the write concern check is missing.
CrossChecks_NoWriteConcern(st, obj, ev) ==
    IF ev # "none" /\ st.hasExplainElem
    THEN Fail(st, Err("FailedToParse",
                      "option is illegal when a explain verbosity is also provided",
                      kExplainName, ""))
    ELSE LET r == IF ev # "none" THEN setExplain(st.request, ev) ELSE st.request IN
         IF ~st.hasCursorElem /\ r.explainMode = "none"
         THEN Fail(st, Err("FailedToParse",
                           "option is required, except for aggregation explain",
                           kCursorName, ""))
         ELSE IF r.explainMode # "none" /\ HasField(obj, kReadConcernFieldName)
         THEN Fail(st, Err("FailedToParse", "Aggregation explain does not support the option",
                           kReadConcernFieldName, ""))
         ELSE [st EXCEPT !.request = r]

\* The checks after the loop, on the locals the loop left.
CrossChecks(st, obj, ev) ==
    IF ev # "none" /\ st.hasExplainElem
    THEN Fail(st, Err("FailedToParse",
                      "option is illegal when a explain verbosity is also provided",
                      kExplainName, ""))
    ELSE LET r == IF ev # "none" THEN setExplain(st.request, ev) ELSE st.request IN
         IF ~st.hasCursorElem /\ r.explainMode = "none"
         THEN Fail(st, Err("FailedToParse",
                           "option is required, except for aggregation explain",
                           kCursorName, ""))
         ELSE IF r.explainMode # "none" /\ HasField(obj, kReadConcernFieldName)
         THEN Fail(st, Err("FailedToParse", "Aggregation explain does not support the option",
                           kReadConcernFieldName, ""))
         ELSE IF r.explainMode # "none" /\ HasField(obj, kWriteConcernField)
         THEN Fail(st, Err("FailedToParse", "Aggregation explain does not support the option",
                           kWriteConcernField, ""))
         ELSE [st EXCEPT !.request = r]

\* StatusWith<AggregationRequest>: a status and, when it is OK, the request.
StatusWith(st) ==
    [status |-> st.status,
     request |-> IF st.status.code = "OK" THEN <<st.request>> ELSE <<>>]

\* Mutant: the fields are scanned before the pipeline is checked.
parseFromBSON_ScanFirst(nss, obj, ev, ro) ==
    LET early == ScanFields(ScanState(AggregationRequest(nss, <<>>)), obj, 1, ro) IN
    IF early.status.code # "OK"
    THEN [status |-> early.status, request |-> <<>>]
    ELSE IF PipelineStatus(obj).code # "OK"
    THEN [status |-> PipelineStatus(obj), request |-> <<>>]
    ELSE LET scanned == ScanFields(ScanState(AggregationRequest(nss, PipelineOf(obj))),
                                   obj, 1, ro) IN
         StatusWith(CrossChecks(scanned, obj, ev))

parseFromBSON(nss, obj, ev, ro) ==
    IF PipelineStatus(obj).code # "OK"
    THEN [status |-> PipelineStatus(obj), request |-> <<>>]
    ELSE LET scanned == ScanFields(ScanState(AggregationRequest(nss, PipelineOf(obj))),
                                   obj, 1, ro) IN
         IF scanned.status.code # "OK"
         THEN StatusWith(scanned)
         ELSE StatusWith(CrossChecks(scanned, obj, ev))

(* ----------------------- serializeToCommandObj ------------------------ *)

\* Mutant: the stages are emitted in reverse order.
PipelineValue_Reversed(pipeline) ==
    [k \in 1..Len(pipeline) |-> EObj(ArrayIndexName(k), pipeline[Len(pipeline) + 1 - k])]

\* Value(std::vector<BSONObj>): an array of objects named by their index.
PipelineValue(pipeline) ==
    [k \in 1..Len(pipeline) |-> EObj(ArrayIndexName(k), pipeline[k])]

\* A Document field whose Value is missing is not part of the document.
Optional(present, elem) == IF present THEN <<elem>> ELSE <<>>

\* Mutant: the cursor document is emitted for explain requests too.
serializeToCommandObj_CursorAlways(r) ==
    <<EStr(kCommandName, r.nss.coll)>>
    \o <<EArr(kPipelineName, PipelineValue(r.pipeline))>>
    \o Optional(r.allowDiskUse, EBool(kAllowDiskUseName, TRUE))
    \o Optional(r.fromRouter, EBool(kFromRouterName, TRUE))
    \o Optional(r.bypassDocumentValidation, EBool(kBypassDocumentValidationName, TRUE))
    \o Optional(r.collation # <<>>, EObj(kCollationName, r.collation))
    \o <<EObj(kCursorName, <<ENum(kBatchSizeName, r.batchSize)>>)>>
    \o Optional(r.hint # <<>>, EObj(kHintName, r.hint))

serializeToCommandObj(r) ==
    <<EStr(kCommandName, r.nss.coll)>>
    \o <<EArr(kPipelineName, PipelineValue(r.pipeline))>>
    \o Optional(r.allowDiskUse, EBool(kAllowDiskUseName, TRUE))
    \o Optional(r.fromRouter, EBool(kFromRouterName, TRUE))
    \o Optional(r.bypassDocumentValidation, EBool(kBypassDocumentValidationName, TRUE))
    \o Optional(r.collation # <<>>, EObj(kCollationName, r.collation))
    \o Optional(r.explainMode = "none",
                EObj(kCursorName, <<ENum(kBatchSizeName, r.batchSize)>>))
    \o Optional(r.hint # <<>>, EObj(kHintName, r.hint))

(* ------------------------- the inputs explored ------------------------ *)

MatchStage == <<EObj("$match", <<>>)>>

SortStage == <<EObj("$sort", <<ENum("a", 1)>>)>>

\* The namespace every request of the model is over.
Nss == [db |-> "test", coll |-> "coll"]

\* The top-level fields a generated command object is made of.
FieldPool ==
    { EArr(kPipelineName, <<EObj("0", MatchStage)>>),
      EArr(kPipelineName, <<EObj("0", MatchStage), EObj("1", SortStage)>>),
      EArr(kPipelineName, <<EObj("0", MatchStage), ENum("1", 5)>>),
      EStr(kPipelineName, "x"),
      EObj(kCursorName, <<>>),
      EObj(kCursorName, <<ENum(kBatchSizeName, 5)>>),
      EObj(kCursorName, <<ENum(kBatchSizeName, -1)>>),
      EObj(kCollationName, <<EStr("locale", "fr")>>),
      EStr(kCollationName, "fr"),
      EStr(kHintName, "idx_1"),
      EObj(kHintName, <<ENum("a", 1)>>),
      ENum(kHintName, 1),
      EBool(kExplainName, TRUE),
      EBool(kExplainName, FALSE),
      ENum(kExplainName, 1),
      EBool(kFromRouterName, TRUE),
      ENum(kFromRouterName, 1),
      EBool(kAllowDiskUseName, TRUE),
      EStr(kAllowDiskUseName, "yes"),
      ENum(kBypassDocumentValidationName, 1),
      EBool(kBypassDocumentValidationName, FALSE),
      EObj(kReadConcernFieldName, <<EStr("level", "majority")>>),
      ENum(kWriteConcernField, 1),
      ENum(kMaxTimeMSName, 100),
      EObj("$queryOptions", <<>>),
      ENum("foo", 1),
      ENum("bar", 1) }

\* The command objects of at most MaxFields fields.
CmdObjs == UNION {[1..n -> FieldPool] : n \in 0..MaxFields}

\* The arguments of the setters and of the constructor.
BatchSizes == {-1, 0, 5}

Pipelines == {<<>>, <<SortStage, MatchStage>>}

Collations == {<<>>, <<EStr("locale", "fr")>>}

Hints == {<<>>, <<EStr("$hint", "idx_1")>>}

NoCall == [op |-> "", n |-> 0]

(* --------------------------- the state machine ------------------------ *)
(* pc = "call": parseFromBSON is about to run on cmdObj, explainVerbosity. *)
(* pc = "returned": it returned status and, when OK, request = <<r>>.      *)
(* pc = "built": the caller owns the request and configures it.            *)
(* orig = <<r>> while the serialization of r is being parsed again.        *)

Init ==
    /\ readOnly \in BOOLEAN
    /\ pc = "call"
    /\ cmdObj \in CmdObjs
    /\ explainVerbosity \in {"none", "executionStats"}
    /\ status = StatusOK
    /\ request = <<>>
    /\ orig = <<>>
    /\ serialized = <<>>
    /\ call = NoCall
    /\ thrown = 0

\* parseFromBSON(nss, cmdObj, explainVerbosity)
ParseFromBSON ==
    /\ pc = "call"
    /\ LET res == parseFromBSON(Nss, cmdObj, explainVerbosity, readOnly) IN
       /\ status' = res.status
       /\ request' = res.request
    /\ pc' = "returned"
    /\ call' = [op |-> "parseFromBSON", n |-> 0]
    /\ UNCHANGED <<readOnly, cmdObj, explainVerbosity, orig, serialized, thrown>>

\* AggregationRequest(nss, pipeline), instead of parsing a command object.
Construct ==
    /\ pc = "call"
    /\ orig = <<>>
    /\ \E pipeline \in Pipelines : request' = <<AggregationRequest(Nss, pipeline)>>
    /\ pc' = "built"
    /\ cmdObj' = <<>>
    /\ explainVerbosity' = "none"
    /\ call' = [op |-> "AggregationRequest", n |-> 0]
    /\ UNCHANGED <<readOnly, status, orig, serialized, thrown>>

\* The caller takes the request out of an OK StatusWith; the command object
\* and the verbosity argument of the call are not needed any more.
TakeRequest ==
    /\ pc = "returned"
    /\ status.code = "OK"
    /\ orig = <<>>
    /\ pc' = "built"
    /\ cmdObj' = <<>>
    /\ explainVerbosity' = "none"
    /\ call' = NoCall
    /\ UNCHANGED <<readOnly, status, request, orig, serialized, thrown>>

\* What every setter call leaves alone; a Document serialized before it is stale.
SetterFrame(op, n) ==
    /\ pc = "built"
    /\ call' = [op |-> op, n |-> n]
    /\ serialized' = <<>>
    /\ UNCHANGED <<readOnly, pc, cmdObj, explainVerbosity, status, orig>>

SetBatchSize ==
    \E batchSize \in BatchSizes :
        /\ SetterFrame("setBatchSize", batchSize)
        /\ IF setBatchSizeThrows(batchSize)
           THEN thrown' = 40203 /\ request' = request
           ELSE thrown' = 0 /\ request' = <<setBatchSize(request[1], batchSize)>>

SetCollation ==
    \E collation \in Collations :
        /\ SetterFrame("setCollation", 0)
        /\ thrown' = 0
        /\ request' = <<setCollation(request[1], collation)>>

SetHint ==
    \E hint \in Hints :
        /\ SetterFrame("setHint", 0)
        /\ thrown' = 0
        /\ request' = <<setHint(request[1], hint)>>

SetExplain ==
    \E verbosity \in Verbosities \cup {"none"} :
        /\ SetterFrame("setExplain", 0)
        /\ thrown' = 0
        /\ request' = <<setExplain(request[1], verbosity)>>

SetAllowDiskUse ==
    \E v \in BOOLEAN :
        /\ SetterFrame("setAllowDiskUse", 0)
        /\ thrown' = 0
        /\ request' = <<setAllowDiskUse(request[1], v)>>

SetFromRouter ==
    \E v \in BOOLEAN :
        /\ SetterFrame("setFromRouter", 0)
        /\ thrown' = 0
        /\ request' = <<setFromRouter(request[1], v)>>

SetBypassDocumentValidation ==
    \E v \in BOOLEAN :
        /\ SetterFrame("setBypassDocumentValidation", 0)
        /\ thrown' = 0
        /\ request' = <<setBypassDocumentValidation(request[1], v)>>

\* serializeToCommandObj() on the request the caller owns.
SerializeToCommandObj ==
    /\ pc = "built"
    /\ serialized' = <<serializeToCommandObj(request[1])>>
    /\ call' = [op |-> "serializeToCommandObj", n |-> 0]
    /\ thrown' = 0
    /\ UNCHANGED <<readOnly, pc, cmdObj, explainVerbosity, status, request, orig>>

\* The request parseFromBSON returned is serialized and the result handed to
\* parseFromBSON again, over the same namespace, without a verbosity or with
\* the verbosity of the request.
Reparse ==
    /\ pc = "returned"
    /\ status.code = "OK"
    /\ orig = <<>>
    /\ orig' = request
    /\ cmdObj' = serializeToCommandObj(request[1])
    /\ explainVerbosity' \in {"none", request[1].explainMode}
    /\ pc' = "call"
    /\ request' = <<>>
    /\ call' = [op |-> "serializeToCommandObj", n |-> 0]
    /\ UNCHANGED <<readOnly, status, serialized, thrown>>

Next ==
    \/ ParseFromBSON
    \/ Construct
    \/ TakeRequest
    \/ SetBatchSize
    \/ SetCollation
    \/ SetHint
    \/ SetExplain
    \/ SetAllowDiskUse
    \/ SetFromRouter
    \/ SetBypassDocumentValidation
    \/ SerializeToCommandObj
    \/ Reparse

Spec == Init /\ [][Next]_vars

(* ====================================================================== *)
(* The decode rules as the specification words them, for the claims.      *)
(* ====================================================================== *)

Returned == pc = "returned"

\* Step 1 of the specification.
PipelineMissingOrNotArray(obj) ==
    \/ \A k \in 1..Len(obj) : obj[k].name # kPipelineName
    \/ GetField(obj, kPipelineName).type # "Array"

SomeStageNotObject(obj) ==
    \E k \in 1..Len(GetField(obj, kPipelineName).doc) :
        GetField(obj, kPipelineName).doc[k].type # "Object"

PipelineValid(obj) == ~PipelineMissingOrNotArray(obj) /\ ~SomeStageNotObject(obj)

RecognizedOptions ==
    {kCursorName, kCollationName, kHintName, kExplainName, kFromRouterName,
     kAllowDiskUseName, kBypassDocumentValidationName}

\* A top-level field no rule of step 2 knows.
Unrecognized(elem) ==
    /\ ~DollarPrefixed(elem.name)
    /\ elem.name \notin optionsParsedElseWhere
    /\ elem.name \notin RecognizedOptions

UnrecognizedError(elem) == Err("FailedToParse", "unrecognized field", elem.name, "")

HintError(elem) ==
    Err("FailedToParse",
        "must be specified as a string representing an index name, or an object representing an index's key pattern",
        kHintName, elem.type)

\* Step 2 of the specification: the error the rule of field k raises, or OK.
FieldRule(obj, k, ro) ==
    LET e == obj[k] IN
    CASE DollarPrefixed(e.name) \/ e.name \in optionsParsedElseWhere -> StatusOK
      [] e.name = kCursorName -> parseCommandCursorOptions(obj, 101).status
      [] e.name = kCollationName ->
             IF e.type = "Object" THEN StatusOK
             ELSE Err("TypeMismatch", "must be an object, not a", kCollationName, e.type)
      [] e.name = kHintName ->
             IF e.type \in {"Object", "String"} THEN StatusOK ELSE HintError(e)
      [] e.name = kExplainName ->
             IF e.type = "Bool" THEN StatusOK
             ELSE Err("TypeMismatch", "must be a boolean, not a", kExplainName, e.type)
      [] e.name = kFromRouterName ->
             IF e.type = "Bool" THEN StatusOK
             ELSE Err("TypeMismatch", "must be a boolean, not a", kFromRouterName, e.type)
      [] e.name = kAllowDiskUseName ->
             IF ro THEN Err("IllegalOperation", "option is not permitted in read-only mode.",
                            kAllowDiskUseName, "")
             ELSE IF e.type = "Bool" THEN StatusOK
             ELSE Err("TypeMismatch", "must be a boolean, not a", kAllowDiskUseName, e.type)
      [] e.name = kBypassDocumentValidationName -> StatusOK
      [] OTHER -> UnrecognizedError(e)

Offending(obj, k, ro) == FieldRule(obj, k, ro).code # "OK"

NoOffendingField(obj, ro) == \A k \in 1..Len(obj) : ~Offending(obj, k, ro)

FirstOffending(obj, k, ro) ==
    /\ k \in 1..Len(obj)
    /\ Offending(obj, k, ro)
    /\ \A j \in 1..(k - 1) : ~Offending(obj, j, ro)

ExplainTrueField(obj) ==
    \E k \in 1..Len(obj) : obj[k].name = kExplainName /\ obj[k].type = "Bool" /\ obj[k].b

\* The verbosity the request ends with, by the specification.
ExpectedVerbosity(obj, ev) ==
    IF ev # "none" THEN ev
    ELSE IF ExplainTrueField(obj) THEN "queryPlanner" ELSE "none"

CollisionError ==
    Err("FailedToParse", "option is illegal when a explain verbosity is also provided",
        kExplainName, "")

CursorRequiredError ==
    Err("FailedToParse", "option is required, except for aggregation explain", kCursorName, "")

ConcernError(field) ==
    Err("FailedToParse", "Aggregation explain does not support the option", field, "")

\* Steps 1 to 3 of the specification, in their order: the status of decode.
ExpectedStatus(obj, ev, ro) ==
    IF PipelineMissingOrNotArray(obj)
    THEN Err("TypeMismatch", "'pipeline' option must be specified as an array",
             kPipelineName, "")
    ELSE IF SomeStageNotObject(obj)
    THEN Err("TypeMismatch", "Each element of the 'pipeline' array must be an object",
             kPipelineName, "")
    ELSE IF ~NoOffendingField(obj, ro)
    THEN FieldRule(obj, CHOOSE k \in 1..Len(obj) : FirstOffending(obj, k, ro), ro)
    ELSE IF ev # "none" /\ HasField(obj, kExplainName)
    THEN CollisionError
    ELSE IF ~HasField(obj, kCursorName) /\ ExpectedVerbosity(obj, ev) = "none"
    THEN CursorRequiredError
    ELSE IF ExpectedVerbosity(obj, ev) # "none" /\ HasField(obj, kReadConcernFieldName)
    THEN ConcernError(kReadConcernFieldName)
    ELSE IF ExpectedVerbosity(obj, ev) # "none" /\ HasField(obj, kWriteConcernField)
    THEN ConcernError(kWriteConcernField)
    ELSE StatusOK

(* ====================================================================== *)
(* The claims.                                                             *)
(* ====================================================================== *)

\* C1: parseFromBSON never succeeds on a command object that has no cursor
\* field when the request has no explain verbosity (no explain: true field,
\* no explainVerbosity argument); when the pipeline check and every scanned
\* field pass, the status is FailedToParse "'cursor' option is required".
C1_CursorRequired ==
    (/\ Returned
     /\ ~HasField(cmdObj, kCursorName)
     /\ explainVerbosity = "none"
     /\ ~ExplainTrueField(cmdObj))
    => /\ status.code # "OK"
       /\ request = <<>>
       /\ (PipelineValid(cmdObj) /\ NoOffendingField(cmdObj, readOnly))
              => status = CursorRequiredError

\* C1 witness: {pipeline: [{$match: {}}], explain: false} fails that way.
C1_Witness ==
    /\ Returned
    /\ cmdObj = <<EArr(kPipelineName, <<EObj("0", MatchStage)>>), EBool(kExplainName, FALSE)>>
    /\ explainVerbosity = "none"
    /\ status = CursorRequiredError

\* C2 (as claimed): after a successful parseFromBSON exactly one of "the
\* request has an explain verbosity" and "the command object had a cursor
\* field" holds.
C2_ExactlyOne ==
    (Returned /\ status.code = "OK")
    => ((request[1].explainMode # "none") # HasField(cmdObj, kCursorName))

\* C2 (amended): after a successful parseFromBSON at least one of the two
\* holds: the request has an explain verbosity or the command object had a
\* cursor field.
C2_AtLeastOne ==
    (Returned /\ status.code = "OK")
    => (request[1].explainMode # "none" \/ HasField(cmdObj, kCursorName))

\* C2 witness: a successful parse of a command object with a cursor field
\* that yields an explain request.
C2_Witness ==
    /\ Returned
    /\ status.code = "OK"
    /\ HasField(cmdObj, kCursorName)
    /\ request[1].explainMode = "queryPlanner"

\* C3: parseFromBSON returns one outcome, and its status is that of the first
\* violation in the order pipeline missing or not an array, first non-object
\* stage, first offending field in document order, explain collision, cursor
\* required, read concern with explain, write concern with explain.
C3_FirstViolation ==
    Returned
    => /\ status = ExpectedStatus(cmdObj, explainVerbosity, readOnly)
       /\ (status.code = "OK") = (Len(request) = 1)

\* C3 witness: a pipeline violation reported although an unrecognized field
\* precedes the pipeline field.
C3_Witness ==
    /\ Returned
    /\ Len(cmdObj) = 2
    /\ cmdObj[1] = ENum("foo", 1)
    /\ cmdObj[2] = EStr(kPipelineName, "x")
    /\ status.code = "TypeMismatch"

\* C4: with an explainVerbosity argument and a boolean explain field (true or
\* false) parseFromBSON fails with the FailedToParse collision error unless an
\* earlier check failed; with the argument and no explain field the request
\* returned has the argument's verbosity; without the argument the verbosity
\* is queryPlanner if some explain field is true and absent otherwise.
C4_ExplainVerbosity ==
    Returned
    => /\ (/\ explainVerbosity # "none"
           /\ \E k \in 1..Len(cmdObj) :
                  cmdObj[k].name = kExplainName /\ cmdObj[k].type = "Bool"
           /\ PipelineValid(cmdObj)
           /\ NoOffendingField(cmdObj, readOnly))
          => status = CollisionError
       /\ (explainVerbosity # "none" /\ ~HasField(cmdObj, kExplainName) /\ status.code = "OK")
          => request[1].explainMode = explainVerbosity
       /\ (explainVerbosity = "none" /\ status.code = "OK")
          => request[1].explainMode =
                 (IF ExplainTrueField(cmdObj) THEN "queryPlanner" ELSE "none")

\* C4 witness: explain: false together with a verbosity argument is refused.
C4_Witness ==
    /\ Returned
    /\ explainVerbosity = "executionStats"
    /\ EBool(kExplainName, FALSE) \in {cmdObj[k] : k \in 1..Len(cmdObj)}
    /\ ~ExplainTrueField(cmdObj)
    /\ status = CollisionError

\* C5 (as claimed): parsing the serialization of any request a successful
\* parseFromBSON produced, over the same namespace, succeeds and yields a
\* request equal to it in every field.
C5_RoundTrip ==
    (Returned /\ Len(orig) = 1)
    => (status.code = "OK" /\ request = orig)

\* C5 (amended): parsing the serialization of a request that a successful
\* parseFromBSON produced and that has no explain verbosity succeeds and
\* yields a request equal to it in every field.
C5_RoundTripNoExplain ==
    (Returned /\ Len(orig) = 1 /\ orig[1].explainMode = "none")
    => (status.code = "OK" /\ request = orig)

\* C5 witness: the round trip of a request whose hint was given by name.
C5_Witness ==
    /\ Returned
    /\ Len(orig) = 1
    /\ orig[1].explainMode = "none"
    /\ orig[1].hint = <<EStr("$hint", "idx_1")>>
    /\ orig[1].batchSize = 5
    /\ status.code = "OK"

NamesOf(obj) == {obj[k].name : k \in 1..Len(obj)}

\* C6: serializeToCommandObj emits the command name with the collection name
\* and the pipeline in order always; allowDiskUse, fromRouter and
\* bypassDocumentValidation exactly when true; collation and hint exactly when
\* non-empty; cursor: {batchSize} exactly when the request has no explain
\* verbosity; no explain field, no other field, no field twice.
C6_Serialization ==
    (pc = "built" /\ Len(serialized) = 1)
    => LET d == serialized[1]
           r == request[1]
       IN  /\ NamesOf(d) \subseteq {kCommandName, kPipelineName, kAllowDiskUseName,
                                    kFromRouterName, kBypassDocumentValidationName,
                                    kCollationName, kCursorName, kHintName}
           /\ \A j, k \in 1..Len(d) : d[j].name = d[k].name => j = k
           /\ EStr(kCommandName, r.nss.coll) \in {d[k] : k \in 1..Len(d)}
           /\ HasField(d, kPipelineName)
           /\ GetField(d, kPipelineName).type = "Array"
           /\ Len(GetField(d, kPipelineName).doc) = Len(r.pipeline)
           /\ \A k \in 1..Len(r.pipeline) :
                  /\ GetField(d, kPipelineName).doc[k].type = "Object"
                  /\ GetField(d, kPipelineName).doc[k].doc = r.pipeline[k]
           /\ HasField(d, kAllowDiskUseName) = r.allowDiskUse
           /\ HasField(d, kFromRouterName) = r.fromRouter
           /\ HasField(d, kBypassDocumentValidationName) = r.bypassDocumentValidation
           /\ \A k \in 1..Len(d) :
                  d[k].name \in {kAllowDiskUseName, kFromRouterName,
                                 kBypassDocumentValidationName}
                  => (d[k].type = "Bool" /\ d[k].b)
           /\ HasField(d, kCollationName) = (r.collation # <<>>)
           /\ HasField(d, kCollationName)
                  => GetField(d, kCollationName) = EObj(kCollationName, r.collation)
           /\ HasField(d, kHintName) = (r.hint # <<>>)
           /\ HasField(d, kHintName) => GetField(d, kHintName) = EObj(kHintName, r.hint)
           /\ HasField(d, kCursorName) = (r.explainMode = "none")
           /\ HasField(d, kCursorName)
                  => GetField(d, kCursorName)
                         = EObj(kCursorName, <<ENum(kBatchSizeName, r.batchSize)>>)

\* C6 witness: an explain request with the default batch size, serialized
\* after setter calls, without a cursor field.
C6_Witness ==
    /\ pc = "built"
    /\ Len(serialized) = 1
    /\ request[1].explainMode = "executionStats"
    /\ request[1].batchSize = kDefaultBatchSize
    /\ request[1].allowDiskUse
    /\ request[1].hint # <<>>
    /\ Len(request[1].pipeline) = 2
    /\ ~HasField(serialized[1], kCursorName)

\* C7 (as claimed): a command object with an unrecognized top-level field
\* always fails with FailedToParse naming that field, whatever its other
\* fields and wherever the field is.
C7_UnrecognizedAlwaysNamed ==
    Returned
    => \A k \in 1..Len(cmdObj) :
           Unrecognized(cmdObj[k]) => status = UnrecognizedError(cmdObj[k])

\* C7 (amended): a command object with an unrecognized top-level field always
\* fails; the status is FailedToParse naming that field when the pipeline
\* check passes and no field before it in document order is offending.
C7_UnrecognizedFails ==
    Returned
    => \A k \in 1..Len(cmdObj) :
           Unrecognized(cmdObj[k])
           => /\ status.code # "OK"
              /\ (PipelineValid(cmdObj) /\ FirstOffending(cmdObj, k, readOnly))
                     => status = UnrecognizedError(cmdObj[k])

\* C7 witness: the unrecognized field is the last one and the first offence.
C7_Witness ==
    /\ Returned
    /\ Len(cmdObj) = 3
    /\ PipelineValid(cmdObj)
    /\ HasField(cmdObj, kCursorName)
    /\ cmdObj[3] = ENum("bar", 1)
    /\ status = UnrecognizedError(ENum("bar", 1))

\* What a step of a setter keeps: namespace and pipeline always, and the whole
\* request when setBatchSize is refused (the refusal is failure 40203, raised
\* for negative arguments and only for them).
C8_SetterStep ==
    (pc = "built" /\ pc' = "built")
    => /\ request'[1].nss = request[1].nss
       /\ request'[1].pipeline = request[1].pipeline
       /\ (call'.op = "setBatchSize")
              => /\ (thrown' = 40203) = (call'.n < 0)
                 /\ (call'.n < 0) => request' = request
                 /\ (call'.n >= 0) => request'[1].batchSize = call'.n
       /\ (call'.op # "setBatchSize") => thrown' = 0

C8_BatchSizeState ==
    /\ Len(request) = 1 => request[1].batchSize >= 0
    /\ (Returned /\ status.code = "OK")
           => request[1].batchSize =
                  (IF HasField(cmdObj, kCursorName)
                   THEN parseCommandCursorOptions(cmdObj, kDefaultBatchSize).batchSize
                   ELSE kDefaultBatchSize)
    /\ (pc = "built" /\ call.op = "AggregationRequest")
           => request[1].batchSize = kDefaultBatchSize

\* C8: in every state reached by the constructor or a successful
\* parseFromBSON and any setter calls batchSize >= 0; it is 101 after the
\* constructor and, after parseFromBSON, the value the cursor options parser
\* accepted (101 without a cursor field); setBatchSize with a negative argument raises 40203 and changes
\* nothing, setBatchSize(0) is accepted; no setter changes namespace or
\* pipeline.
C8_BatchSizeNonNegative == []C8_BatchSizeState /\ [][C8_SetterStep]_vars

\* C8 witness: setBatchSize(-1) was refused on a request whose batch size a
\* setter had set to 0.
C8_Witness ==
    /\ pc = "built"
    /\ call = [op |-> "setBatchSize", n |-> -1]
    /\ thrown = 40203
    /\ request[1].batchSize = 0

StripConcerns(obj) ==
    SelectSeq(obj, LAMBDA e : e.name \notin {kReadConcernFieldName, kWriteConcernField})

\* C9: a successful parseFromBSON that yields an explain request had neither
\* a read concern nor a write concern field in the command object; in every
\* other outcome than the two explain-concern errors those fields are ignored:
\* the outcome is that of the command object without them.
C9_ConcernsAndExplain ==
    Returned
    => /\ (status.code = "OK" /\ request[1].explainMode # "none")
          => (~HasField(cmdObj, kReadConcernFieldName) /\ ~HasField(cmdObj, kWriteConcernField))
       /\ (status \notin {ConcernError(kReadConcernFieldName), ConcernError(kWriteConcernField)})
          => parseFromBSON(Nss, StripConcerns(cmdObj), explainVerbosity, readOnly)
                 = [status |-> status, request |-> request]

\* C9 witness: a successful non-explain parse of a command object with a
\* write concern field, equal to the parse without it.
C9_Witness ==
    /\ Returned
    /\ status.code = "OK"
    /\ request[1].explainMode = "none"
    /\ request[1].batchSize = 5
    /\ HasField(cmdObj, kWriteConcernField)

HintByNameCmd ==
    <<EArr(kPipelineName, <<EObj("0", MatchStage)>>), EStr(kHintName, "idx_1")>>

\* The last hint field of the command object is the one the request keeps.
LastHint(obj) ==
    obj[CHOOSE k \in FieldIndexes(obj, kHintName) : \A j \in FieldIndexes(obj, kHintName) : j <= k]

\* C10 (as claimed): parsing {pipeline: [{$match: {}}], hint: "idx_1"} with
\* no verbosity argument succeeds with the hint {$hint: "idx_1"}.
C10_HintByNameSucceeds ==
    (Returned /\ cmdObj = HintByNameCmd /\ explainVerbosity = "none")
    => (status.code = "OK" /\ request[1].hint = <<EStr("$hint", "idx_1")>>)

\* C10 (amended): that command object fails with the cursor-required error;
\* with a cursor field added it succeeds with the hint {$hint: "idx_1"}.
\* Whenever parseFromBSON succeeds the hint of the request is that of the last
\* hint field: {$hint: <string>} for a string, the object itself for an
\* object; a hint field of another type makes it fail, with the FailedToParse
\* hint error when that field is the first violation.
C10_HintNormalized ==
    Returned
    => /\ (cmdObj = HintByNameCmd /\ explainVerbosity = "none")
          => status = CursorRequiredError
       /\ (cmdObj = HintByNameCmd \o <<EObj(kCursorName, <<>>)>>)
          => (status.code = "OK" /\ request[1].hint = <<EStr("$hint", "idx_1")>>)
       /\ (status.code = "OK" /\ HasField(cmdObj, kHintName))
          => /\ LastHint(cmdObj).type = "String"
                    => request[1].hint = <<EStr("$hint", LastHint(cmdObj).s)>>
             /\ LastHint(cmdObj).type = "Object"
                    => request[1].hint = LastHint(cmdObj).doc
       /\ \A k \in 1..Len(cmdObj) :
              (cmdObj[k].name = kHintName /\ cmdObj[k].type \notin {"String", "Object"})
              => /\ status.code # "OK"
                 /\ (PipelineValid(cmdObj) /\ FirstOffending(cmdObj, k, readOnly))
                        => status = HintError(cmdObj[k])

\* C10 witness: the hint by name parsed together with a cursor field.
C10_Witness ==
    /\ Returned
    /\ cmdObj = HintByNameCmd \o <<EObj(kCursorName, <<>>)>>
    /\ status.code = "OK"
    /\ request[1].hint = <<EStr("$hint", "idx_1")>>

====
